---- MODULE Spec2Model ----
(***************************************************************************)
(* The read-aloud pipeline of src/service-worker.js: the module-level      *)
(* state (queue, playing, cancellationToken, creating), the handlers       *)
(* readAloud, stopReading and download, the synthesis call                 *)
(* getAudioUri/synthesize as far as it touches that state,                 *)
(* createOffscreenDocument and updateContextMenus.                         *)
(*                                                                         *)
(* JavaScript runs one task at a time, so every action below is the code   *)
(* that runs between two suspension points (await) of one async function.  *)
(* A continuation that JavaScript runs in the same microtask checkpoint    *)
(* (an async function returning to the function that awaits it, or the     *)
(* await of an already settled promise) belongs to the same action.        *)
(*                                                                         *)
(* The offscreen document (the sink) and text.chunk() are not part of the  *)
(* file. The sink is modelled from its contract: a play settles when the   *)
(* playback ends or fails, a stop aborts the playback in progress and is   *)
(* acknowledged once the aborted play has reported back. A text is the     *)
(* sequence of its chunks, and the chunk of a chunk is the chunk itself,   *)
(* so getAudioUri makes one synthesize call.                               *)
(***************************************************************************)
EXTENDS Integers, Sequences, FiniteSets

\* ---- bounds ------------------------------------------------------------
MaxCalls == 2
MaxStops == 1
MaxChunks == 2
MaxFaults == 1
\* the longest text of the specification that reads a single text aloud
SoloChunks == 3
MaxDownloads == 1
\* the longest text of a download
MaxDlChunks == 2
\* the storage listener calls updateContextMenus while fewer calls are pending
MaxPending == 2

Calls == 1..MaxCalls
Stops == 1..MaxStops
Downloads == 1..MaxDownloads
\* every drain iteration shifts one chunk and issues at most one request,
\* except a session's first iteration, which issues at most two
MaxReqs ==
    IF MaxCalls * (MaxChunks + 1) > SoloChunks + 1
    THEN MaxCalls * (MaxChunks + 1) ELSE SoloChunks + 1

\* A chunk is <<p, i>>: the i-th chunk of the text of readAloud call p.
\* NoChunk stands for the undefined audioUri of an empty prefetchQueue.shift().
NoChunk == <<0, 0>>
ChunksOf(p, n) == [i \in 1..n |-> <<p, i>>]

\* The async functions that run createOffscreenDocument: a readAloud call
\* (inside its stopReading or before its play), a stopReading invoked by an
\* event, and the stopReading that synthesize awaits after a backend error,
\* called by readAloud ("sy") or by download ("dl").
Owners ==
    ({"ra"} \X Calls) \cup ({"us"} \X Stops) \cup ({"sy"} \X (1..MaxReqs))
        \cup ({"dl"} \X (1..(MaxDownloads * MaxDlChunks)))
RA(p) == <<"ra", p>>
US(u) == <<"us", u>>
SY(r) == <<"sy", r>>
\* the synthesize call for chunk i of download d, and back
DL(d, i) == <<"dl", (d - 1) * MaxDlChunks + i>>
DlOf(o) == ((o[2] - 1) \div MaxDlChunks) + 1
DlChunk(o) == ((o[2] - 1) % MaxDlChunks) + 1

VARIABLES
    queue,              \* let queue = []
    playing,            \* let playing = false
    cancellationToken,  \* let cancellationToken = false
    creating,           \* let creating: "null", "pending" or "rejected" promise
    sinkExists,         \* the offscreen document is among clients.matchAll()
    creations,          \* number of chrome.offscreen.createDocument calls
    pc,                 \* position of each readAloud call
    nchunks,            \* text.chunk().length of each readAloud call
    count,              \* readAloud: let count
    prefetchQueue,      \* readAloud: const prefetchQueue (ids of requests)
    aw,                 \* readAloud: the request whose promise it awaits
    text,               \* readAloud: const text = queue.shift()
    audioUri,           \* readAloud: const audioUri (the chunk it encodes)
    upc,                \* position of each event-invoked stopReading
    reqs,               \* every getAudioUri call of readAloud so far, in call order
    dpc,                \* position of each download call
    dst,                \* download: the synthesize calls of its getAudioUri call
    ph,                 \* position of each owner inside createOffscreenDocument / sendMessage
    abortedBy,          \* sink: the plays a stop command has aborted and not yet reported
    waiters,            \* the owners suspended at line 388, in the order they suspended
    errorCalls,         \* sendMessageToCurrentTab calls awaiting chrome.tabs.query
    errors,             \* synthesize calls whose setError message was sent to the tab
    played,             \* history: the play commands each call has <<text, audio>>
    stopped,            \* history: the owners whose stop command was sent
    wasPlaying,         \* history: readAloud found playing = true at line 79
    cancelled,          \* history: stopReading ran while the call was running
    dirty,              \* history: chunks were pushed between the call of the stopReading
                        \* and the end of the task in which it returned
    during,             \* history: a readAloud call was running when stopReading was invoked
    menuEnabled,        \* the enabled state last written to the 'stopReading' context menu
    updates,            \* number of updateContextMenus calls that have not written yet
    stopAt,             \* history: the state in which stopReading was invoked
    selection,          \* readAloudShortcut: const text of the call that awaits the stopReading
                        \* at line 148, as the number of its chunks (0: no such call)
    bootstrapped,       \* Bootstrap has created the context menus and resolved bootstrapped
    faults              \* number of failures the environment has produced

vars == <<queue, playing, cancellationToken, creating, sinkExists, creations,
          pc, nchunks, count, prefetchQueue, aw, text, audioUri, upc, reqs, dpc, dst, ph,
          abortedBy, errors, played, stopped, wasPlaying, cancelled, dirty, during,
          stopAt, selection, bootstrapped, menuEnabled, updates, faults, waiters, errorCalls>>

Init ==
    /\ queue = <<>>
    /\ playing = FALSE
    /\ cancellationToken = FALSE
    /\ creating = "null"
    /\ sinkExists = FALSE
    /\ creations = 0
    /\ pc = [p \in Calls |-> "idle"]
    /\ nchunks = [p \in Calls |-> 0]
    /\ count = [p \in Calls |-> 0]
    /\ prefetchQueue = [p \in Calls |-> <<>>]
    /\ aw = [p \in Calls |-> 0]
    /\ text = [p \in Calls |-> NoChunk]
    /\ audioUri = [p \in Calls |-> NoChunk]
    /\ upc = [u \in Stops |-> "idle"]
    /\ reqs = <<>>
    /\ dpc = [d \in Downloads |-> "idle"]
    /\ dst = [d \in Downloads |-> <<>>]
    /\ ph = [o \in Owners |-> "none"]
    /\ abortedBy = [o \in Owners |-> {}]
    /\ waiters = <<>>
    /\ errorCalls = {}
    /\ errors = {}
    /\ played = [p \in Calls |-> <<>>]
    /\ stopped = {}
    /\ wasPlaying = [p \in Calls |-> FALSE]
    /\ cancelled = [p \in Calls |-> FALSE]
    /\ dirty = [u \in Stops |-> FALSE]
    /\ during = [u \in Stops |-> FALSE]
    /\ stopAt = [u \in Stops |-> [idle |-> FALSE, calls |-> {}]]
    /\ selection = [u \in Stops |-> 0]
    /\ bootstrapped = FALSE
    /\ menuEnabled = FALSE
    /\ updates = 0
    /\ faults = 0

\* ---- derived state -------------------------------------------------------
\* the call has been invoked and has neither returned nor thrown
RunningPcs == {"stop", "sync", "synth", "play"}
Running(p) == pc[p] \in RunningPcs
\* the call has entered its while loop and has not left it
InLoop(p) == pc[p] \in {"synth", "play"}
Ended(p) == pc[p] \in {"done", "aborted", "thrown"}
\* play commands sent to the sink and not yet settled
Outstanding == {p \in Calls : pc[p] = "play" /\ ph[RA(p)] = "sent"}
\* getAudioUri calls of p that have not settled
Unsettled(p) == {r \in DOMAIN reqs : reqs[r].by = p /\ reqs[r].st \in {"pending", "stop"}}
\* the owner runs createOffscreenDocument on behalf of stopReading
StopCtx(o) ==
    \/ o[1] = "us" /\ upc[o[2]] = "stop"
    \/ o[1] = "sy" /\ o[2] \in DOMAIN reqs /\ reqs[o[2]].st = "stop"
    \/ o[1] = "ra" /\ pc[o[2]] = "stop"
    \/ o[1] = "dl" /\ DlChunk(o) \in DOMAIN dst[DlOf(o)]
                   /\ dst[DlOf(o)][DlChunk(o)] = "stop"
PlayCtx(o) == o[1] = "ra" /\ pc[o[2]] = "play"
\* no session: playing is false, nothing is queued and no readAloud call runs
Idle == ~playing /\ queue = <<>> /\ \A p \in Calls : ~Running(p)

\* A getAudioUri call: who called it, for which chunk, whether it is the
\* prefetch of line 105 (pre) or the call of line 110, and how many play
\* commands the caller had sent and seen completed when it called.
NewReq(p, c, pre, cnt) ==
    [by |-> p, chunk |-> c, st |-> "pending", pre |-> pre,
     sentAt |-> Len(played[p]), playedAt |-> cnt]

\* hasOffscreenDocument (lines 400-411): clients.matchAll() takes its snapshot
\* at some moment between the call, when ph becomes "has", and the resumption
\* of the caller. The document never goes away, so the answer is true when the
\* document existed at the call, false when it does not exist at the
\* resumption, and either one when it was created in between.
HasAnswers(o) ==
    IF ph[o] = "hasT" THEN {TRUE}
    ELSE IF sinkExists THEN {TRUE, FALSE} ELSE {FALSE}
HasCall == IF sinkExists THEN "hasT" ELSE "hasF"
InHas(o) == ph[o] \in {"hasT", "hasF"}

\* ---- stopReading ----------------------------------------------------------
\* stopReading without line 159 (queue = [])
StopSyncKeepsQueue(v) ==
    [v EXCEPT !.cancellationToken = TRUE,
              !.playing = FALSE,
              !.updates = @ + 1,
              !.cancelled = [q \in Calls |-> @[q] \/ v.pc[q] \in RunningPcs]]

\* lines 158-161, the part of stopReading that runs before its first await
StopSync(v) ==
    [v EXCEPT !.cancellationToken = TRUE,
              !.queue = <<>>,
              !.playing = FALSE,
              !.updates = @ + 1,
              !.cancelled = [q \in Calls |-> @[q] \/ v.pc[q] \in RunningPcs]]

\* The variables that readAloud, stopReading and the code following an await
\* of createOffscreenDocument or of stopReading assign, as one record. When a creation settles, every
\* function suspended on it resumes in the same microtask checkpoint, each
\* from the state the one before it left.
View ==
    [pc |-> pc, upc |-> upc, queue |-> queue, playing |-> playing,
     updates |-> updates, reqs |-> reqs, dpc |-> dpc, dst |-> dst,
     dirty |-> dirty, ph |-> ph, played |-> played, abortedBy |-> abortedBy,
     stopped |-> stopped, nchunks |-> nchunks, wasPlaying |-> wasPlaying,
     cancellationToken |-> cancellationToken, cancelled |-> cancelled]

\* the step ends in the state v
Commit(v) ==
    /\ pc' = v.pc
    /\ upc' = v.upc
    /\ queue' = v.queue
    /\ playing' = v.playing
    /\ updates' = v.updates
    /\ reqs' = v.reqs
    /\ dpc' = v.dpc
    /\ dst' = v.dst
    /\ dirty' = v.dirty
    /\ ph' = v.ph
    /\ played' = v.played
    /\ abortedBy' = v.abortedBy
    /\ stopped' = v.stopped
    /\ nchunks' = v.nchunks
    /\ wasPlaying' = v.wasPlaying
    /\ cancellationToken' = v.cancellationToken
    /\ cancelled' = v.cancelled

\* lines 84-86 of readAloud; the chunks are pushed no later than the task in
\* which a stopReading that is running when the task begins returns
Enqueue(v, p, n) ==
    [v EXCEPT !.queue = @ \o ChunksOf(p, n),
              !.playing = TRUE,
              !.updates = @ + 1,
              !.pc[p] = "sync",
              !.dirty = [u \in Stops |-> v.dirty[u] \/ upc[u] = "stop"]]

\* the readAloud calls that have not been invoked, and the stopReading calls
\* whose caller readAloudShortcut goes on to call readAloud
FreeCalls == {p \in Calls : pc[p] = "idle"}
Reserved == {u \in Stops : upc[u] = "stop" /\ selection[u] > 0}
\* the next readAloud call
NextCall(v) ==
    CHOOSE p \in Calls :
        v.pc[p] = "idle" /\ \A q \in Calls : q < p => v.pc[q] # "idle"

\* lines 76-89: readAloud up to its first await, which is stopReading's when
\* playing is true and chrome.storage.sync.get() otherwise
ReadAloudCall(v, p, n) ==
    LET w == [v EXCEPT !.nchunks[p] = n, !.wasPlaying[p] = v.playing]
    IN  IF v.playing
        THEN [StopSync(w) EXCEPT !.pc[p] = "stop", !.ph[RA(p)] = HasCall]
        ELSE Enqueue(w, p, n)

\* stopReading returns (line 173) to whoever awaits it: nobody (an event),
\* readAloudShortcut at line 148, which calls readAloud at line 153 when the
\* selection is not empty, readAloud at line 79, which goes on to line 89,
\* or synthesize at line 260, which throws at line 262 into the readAloud
\* that awaits the request or into the download (line 179).
StopReturn(v, o) ==
    CASE o[1] = "us" ->
            LET w == [v EXCEPT !.upc[o[2]] = "done"]
            IN  IF selection[o[2]] > 0
                THEN ReadAloudCall(w, NextCall(w), selection[o[2]])
                ELSE w
      [] o[1] = "ra" -> Enqueue(v, o[2], nchunks[o[2]])
      [] o[1] = "sy" ->
            LET r == o[2]
                p == v.reqs[r].by
            IN  [v EXCEPT !.reqs[r].st = "backend",
                          !.pc[p] = IF @ = "synth" /\ aw[p] = r THEN "thrown" ELSE @]
      [] o[1] = "dl" ->
            [v EXCEPT !.dst[DlOf(o)][DlChunk(o)] = "backend",
                      !.dpc[DlOf(o)] = IF @ = "synth" THEN "thrown" ELSE @]

\* lines 156-164: stopReading is called and runs up to its first await
StopCalled(u) ==
    /\ UNCHANGED <<faults, menuEnabled, errorCalls, waiters, bootstrapped>>
    /\ during' = [during EXCEPT ![u] = \E p \in Calls : Running(p)]
    /\ stopAt' = [stopAt EXCEPT ![u] =
                    [idle |-> Idle, calls |-> {p \in Calls : pc[p] # "idle"}]]
    /\ upc[u] = "idle"
    /\ \A v \in Stops : v < u => upc[v] # "idle"
    /\ Commit([StopSync(View) EXCEPT !.upc[u] = "stop", !.ph[US(u)] = HasCall])
    /\ UNCHANGED <<creating, sinkExists, creations, count, prefetchQueue, aw,
                   text, audioUri, errors>>

\* stopReading invoked by an event (command, message or context menu), or
\* by readAloudShortcut with an empty selection, which returns at line 150
StopReading(u) ==
    /\ selection' = [selection EXCEPT ![u] = 0]
    /\ StopCalled(u)

\* lines 145-148: readAloudShortcut resumes with a selection of n chunks
\* while playing is true and awaits stopReading. (When playing is false it
\* calls readAloud at once, which is the action ReadAloud.)
ReadAloudShortcut(u, n) ==
    /\ playing
    /\ Cardinality(FreeCalls) > Cardinality(Reserved)
    /\ selection' = [selection EXCEPT ![u] = n]
    /\ StopCalled(u)

\* ---- the sink (the offscreen document, which is not part of this file) -------
\* a stop command aborts the playback in progress: the plays outstanding when
\* it is sent
SinkAborts(v) == {p \in Calls : v.pc[p] = "play" /\ v.ph[RA(p)] = "sent"}
\* the sink acknowledges a stop command once the plays it aborted have
\* reported back
SinkAcknowledges(o) == abortedBy[o] = {}
\* the play of p was aborted by a stop command and has not reported back
SinkAborted(p) == \E o \in Owners : p \in abortedBy[o]

\* ---- createOffscreenDocument and sendMessage ------------------------------
\* createOffscreenDocument returned: line 115 sends 'play', line 165 'stop'.
\* A stop command aborts the plays outstanding at the sink.
CodReturn(v, o) ==
    IF PlayCtx(o)
    THEN [v EXCEPT !.ph[o] = "sent",
                   !.played[o[2]] = Append(@, <<text[o[2]], audioUri[o[2]]>>)]
    ELSE [v EXCEPT !.ph[o] = "sent",
                   !.abortedBy[o] = SinkAborts(v),
                   !.stopped = @ \cup {o}]

\* createOffscreenDocument threw into a catch block: readAloud returns at
\* line 126, stopReading logs at line 170
CodCatch(v, o) ==
    IF PlayCtx(o)
    THEN [v EXCEPT !.ph[o] = "none", !.pc[o[2]] = "aborted"]
    ELSE [v EXCEPT !.ph[o] = "none"]

\* createOffscreenDocument threw: the catch block, and for stopReading its
\* return at line 173
CodThrow(v, o) ==
    IF PlayCtx(o) THEN CodCatch(v, o) ELSE StopReturn(CodCatch(v, o), o)

\* the functions suspended on the creation (lines 395 and 388) resume in the
\* order in which they suspended; each sends its command as it resumes
RECURSIVE AllReturn(_, _)
AllReturn(v, os) ==
    IF os = <<>> THEN v ELSE AllReturn(CodReturn(v, Head(os)), Tail(os))

\* the stopReading calls among os return to their callers, in order
RECURSIVE AllStopReturn(_, _)
AllStopReturn(v, os) ==
    IF os = <<>> THEN v
    ELSE AllStopReturn(IF PlayCtx(Head(os)) THEN v ELSE StopReturn(v, Head(os)),
                       Tail(os))

RECURSIVE AllCatch(_, _)
AllCatch(v, os) ==
    IF os = <<>> THEN v ELSE AllCatch(CodCatch(v, Head(os)), Tail(os))

\* the functions suspended on the creation resume with its rejection: every
\* catch block runs (lines 120-126 and 169-171) before the promise that
\* stopReading returns at line 173 resumes a caller of stopReading
AllThrow(v, os) == AllStopReturn(AllCatch(v, os), os)

\* line 385: hasOffscreenDocument returned true
HasDocument(o) ==
    /\ UNCHANGED <<faults, during, stopAt, selection, bootstrapped, menuEnabled, errorCalls, waiters>>
    /\ InHas(o)
    /\ TRUE \in HasAnswers(o)
    /\ Commit(CodReturn(View, o))
    /\ UNCHANGED <<creating, sinkExists, creations, count, prefetchQueue, aw, text, audioUri, errors>>

\* lines 387-388: a creation is in flight, await it
AwaitCreating(o) ==
    /\ UNCHANGED <<faults, during, stopAt, selection, bootstrapped, menuEnabled, errorCalls>>
    /\ InHas(o)
    /\ FALSE \in HasAnswers(o)
    /\ creating = "pending"
    /\ ph' = [ph EXCEPT ![o] = "wait"]
    /\ waiters' = Append(waiters, o)
    /\ UNCHANGED <<updates, queue, playing, cancellationToken, creating, sinkExists,
                   creations, pc, nchunks, count, prefetchQueue, aw, text,
                   audioUri, upc, reqs, dpc, dst, abortedBy, errors, played,
                   stopped, wasPlaying, cancelled, dirty>>

\* lines 387-388 when creating holds the promise of a failed creation
AwaitRejected(o) ==
    /\ UNCHANGED <<faults, during, stopAt, selection, bootstrapped, menuEnabled, errorCalls, waiters>>
    /\ InHas(o)
    /\ FALSE \in HasAnswers(o)
    /\ creating = "rejected"
    /\ Commit(CodThrow(View, o))
    /\ UNCHANGED <<creating, sinkExists, creations, count, prefetchQueue, aw, text, audioUri, errors>>

\* lines 390-395: start a creation and await it
CreateDocument(o) ==
    /\ UNCHANGED <<faults, during, stopAt, selection, bootstrapped, menuEnabled, errorCalls, waiters>>
    /\ InHas(o)
    /\ FALSE \in HasAnswers(o)
    /\ creating = "null"
    /\ creating' = "pending"
    /\ creations' = creations + 1
    /\ ph' = [ph EXCEPT ![o] = "own"]
    /\ UNCHANGED <<updates, queue, playing, cancellationToken, sinkExists, pc, nchunks,
                   count, prefetchQueue, aw, text, audioUri, upc, reqs, dpc, dst,
                   abortedBy, errors, played, stopped, wasPlaying,
                   cancelled, dirty>>

\* chrome.offscreen.createDocument resolved: its caller runs line 396 and the
\* functions suspended at line 388 resume with it
CreateOk(o) ==
    /\ UNCHANGED <<faults, during, stopAt, selection, bootstrapped, menuEnabled, errorCalls>>
    /\ ph[o] = "own"
    /\ sinkExists' = TRUE
    /\ creating' = "null"
    /\ waiters' = <<>>
    /\ Commit(AllReturn(View, <<o>> \o waiters))
    /\ UNCHANGED <<creations, count, prefetchQueue, aw, text, audioUri, errors>>

\* createOffscreenDocument clearing creating when the creation is rejected
CreateFailClears(o) ==
    /\ faults < MaxFaults
    /\ faults' = faults + 1
    /\ UNCHANGED <<during, stopAt, selection, bootstrapped, menuEnabled, errorCalls>>
    /\ ph[o] = "own"
    /\ creating' = "null"
    /\ waiters' = <<>>
    /\ Commit(AllThrow(View, <<o>> \o waiters))
    /\ UNCHANGED <<sinkExists, creations, count, prefetchQueue, aw, text, audioUri, errors>>

\* chrome.offscreen.createDocument rejected: line 396 is not reached, and the
\* functions suspended at line 388 resume with the rejection
CreateFail(o) ==
    /\ faults < MaxFaults
    /\ faults' = faults + 1
    /\ UNCHANGED <<during, stopAt, selection, bootstrapped, menuEnabled, errorCalls>>
    /\ ph[o] = "own"
    /\ creating' = "rejected"
    /\ waiters' = <<>>
    /\ Commit(AllThrow(View, <<o>> \o waiters))
    /\ UNCHANGED <<sinkExists, creations, count, prefetchQueue, aw, text, audioUri, errors>>

\* the sink answers the stop command (or the message fails: both end at
\* line 173) once the plays it aborted have reported back
StopSettle(o) ==
    /\ UNCHANGED <<faults, during, stopAt, selection, bootstrapped, menuEnabled, errorCalls, waiters>>
    /\ ph[o] = "sent"
    /\ StopCtx(o)
    /\ SinkAcknowledges(o)
    /\ Commit(StopReturn([View EXCEPT !.ph[o] = "none"], o))
    /\ UNCHANGED <<creating, sinkExists, creations, count, prefetchQueue, aw, text, audioUri, errors>>

\* ---- readAloud --------------------------------------------------------------
\* lines 76-89: readAloud is invoked by an event (or by readAloudShortcut
\* at line 153 when playing is false) and runs up to its first await
ReadAloud(p, n) ==
    /\ UNCHANGED <<faults, during, stopAt, selection, bootstrapped, menuEnabled, errorCalls, waiters>>
    /\ pc[p] = "idle"
    /\ \A q \in Calls : q < p => pc[q] # "idle"
    /\ Cardinality(FreeCalls) > Cardinality(Reserved)
    /\ Commit(ReadAloudCall(View, p, n))
    /\ UNCHANGED <<creating, sinkExists, creations, count, prefetchQueue, aw,
                   text, audioUri, errors>>

\* readAloud leaving the loop without assigning playing
LeaveKeepsPlaying(p, tok) ==
    /\ cancellationToken' = IF queue = <<>> THEN tok ELSE FALSE
    /\ playing' = playing
    /\ updates' = updates + 1
    /\ pc' = [pc EXCEPT ![p] = "done"]
    /\ ph' = [ph EXCEPT ![RA(p)] = "none"]
    /\ UNCHANGED <<queue, reqs, dpc, dst, prefetchQueue, aw, text, audioUri>>

\* readAloud leaves the loop: lines 94-98 (cancelled) or 133-135 (drained)
Leave(p, tok) ==
    /\ cancellationToken' = IF queue = <<>> THEN tok ELSE FALSE
    /\ playing' = FALSE
    /\ updates' = updates + 1
    /\ pc' = [pc EXCEPT ![p] = "done"]
    /\ ph' = [ph EXCEPT ![RA(p)] = "none"]
    /\ UNCHANGED <<queue, reqs, dpc, dst, prefetchQueue, aw, text, audioUri>>

\* line 104: if (nextText)
HasNext(rest, cnt) == rest # <<>>

\* line 109: count === 0
Direct(cnt) == cnt = 0

\* lines 104-111: the getAudioUri calls of one iteration, in call order
Issued(p, t, rest, cnt) ==
    (IF HasNext(rest, cnt) THEN <<NewReq(p, Head(rest), TRUE, cnt)>> ELSE <<>>)
    \o (IF Direct(cnt) THEN <<NewReq(p, t, FALSE, cnt)>> ELSE <<>>)

\* lines 93-112: the loop test and one iteration up to its await, entered
\* with cancellationToken = tok and count = cnt
Drain(p, tok, cnt) ==
    /\ count' = [count EXCEPT ![p] = cnt]
    /\ IF queue = <<>> \/ tok
       THEN Leave(p, tok)
       ELSE LET t == Head(queue)
                rest == Tail(queue)
                reqs1 == reqs \o Issued(p, t, rest, cnt)
                new == (Len(reqs) + 1)..Len(reqs1)
                pres == {i \in new : reqs1[i].pre}
                pf1 == IF pres = {} THEN prefetchQueue[p]
                       ELSE Append(prefetchQueue[p], CHOOSE i \in pres : TRUE)
            IN  /\ queue' = rest
                /\ cancellationToken' = tok
                /\ UNCHANGED <<playing, updates>>
                /\ text' = [text EXCEPT ![p] = t]
                /\ reqs' = reqs1
                /\ UNCHANGED <<dpc, dst>>
                /\ IF Direct(cnt)
                   THEN \* line 110: await this.getAudioUri({ text, encoding })
                        /\ prefetchQueue' = [prefetchQueue EXCEPT ![p] = pf1]
                        /\ aw' = [aw EXCEPT ![p] = CHOOSE i \in new : ~reqs1[i].pre]
                        /\ pc' = [pc EXCEPT ![p] = "synth"]
                        /\ ph' = [ph EXCEPT ![RA(p)] = "none"]
                        /\ UNCHANGED audioUri
                   ELSE \* line 111: await prefetchQueue.shift()
                        IF pf1 = <<>>
                        THEN /\ prefetchQueue' = prefetchQueue
                             /\ aw' = [aw EXCEPT ![p] = 0]
                             /\ audioUri' = [audioUri EXCEPT ![p] = NoChunk]
                             /\ pc' = [pc EXCEPT ![p] = "play"]
                             /\ ph' = [ph EXCEPT ![RA(p)] = HasCall]
                        ELSE LET r == Head(pf1)
                                 st == reqs1[r].st
                             IN  /\ prefetchQueue' = [prefetchQueue EXCEPT ![p] = Tail(pf1)]
                                 /\ aw' = [aw EXCEPT ![p] = r]
                                 /\ audioUri' = IF st = "ok"
                                                THEN [audioUri EXCEPT ![p] = reqs1[r].chunk]
                                                ELSE audioUri
                                 /\ pc' = [pc EXCEPT ![p] =
                                             CASE st = "ok" -> "play"
                                               [] st \in {"auth", "net", "backend"} -> "thrown"
                                               [] OTHER -> "synth"]
                                 /\ ph' = [ph EXCEPT ![RA(p)] =
                                             IF st = "ok" THEN HasCall ELSE "none"]

\* chrome.storage.sync.get() of line 89 resolved: lines 90-92 and the loop
SyncDone(p) ==
    /\ UNCHANGED <<faults, during, stopAt, selection, bootstrapped, menuEnabled, errorCalls, waiters>>
    /\ pc[p] = "sync"
    /\ Drain(p, FALSE, 0)
    /\ UNCHANGED <<creating, sinkExists, creations, nchunks, upc, abortedBy,
                   errors, played, stopped, wasPlaying, cancelled, dirty>>

\* the sink reports the end of a playback: lines 129-130 and the loop
PlayEnd(p) ==
    /\ UNCHANGED <<faults, during, stopAt, selection, bootstrapped, menuEnabled, errorCalls, waiters>>
    /\ p \in Outstanding
    /\ abortedBy' = [o \in Owners |-> abortedBy[o] \ {p}]
    /\ Drain(p, cancellationToken, count[p] + 1)
    /\ UNCHANGED <<creating, sinkExists, creations, nchunks, upc, errors, played, stopped, wasPlaying, cancelled, dirty>>

\* lines 120-126: the play message is rejected and readAloud returns
Catch(p) ==
    /\ abortedBy' = [o \in Owners |-> abortedBy[o] \ {p}]
    /\ pc' = [pc EXCEPT ![p] = "aborted"]
    /\ ph' = [ph EXCEPT ![RA(p)] = "none"]
    /\ UNCHANGED <<updates, queue, playing, cancellationToken, creating, sinkExists,
                   creations, nchunks, count, prefetchQueue, aw, text, audioUri,
                   upc, reqs, dpc, dst, errors, played, stopped, wasPlaying,
                   cancelled, dirty>>

\* the sink fails to play
PlayFail(p) ==
    /\ faults < MaxFaults
    /\ faults' = faults + 1
    /\ UNCHANGED <<during, stopAt, selection, bootstrapped, menuEnabled, errorCalls, waiters>>
    /\ p \in Outstanding
    /\ Catch(p)

\* the sink reports a playback that a stop command aborted as failed
PlayAborted(p) ==
    /\ UNCHANGED <<faults, during, stopAt, selection, bootstrapped, menuEnabled, errorCalls, waiters>>
    /\ p \in Outstanding
    /\ SinkAborted(p)
    /\ Catch(p)

\* ---- getAudioUri / synthesize ----------------------------------------------
\* the readAloud call suspended at line 110 or 111 on request r, if any
Awaits(p, r) == pc[p] = "synth" /\ aw[p] = r

\* lines 265-298: the response is ok, the awaiting readAloud goes on to line 114
SynthOk(r) ==
    /\ UNCHANGED <<faults, during, stopAt, selection, bootstrapped, menuEnabled, errorCalls, waiters>>
    /\ r \in DOMAIN reqs
    /\ reqs[r].st = "pending"
    /\ reqs' = [reqs EXCEPT ![r].st = "ok"]
    /\ UNCHANGED <<dpc, dst>>
    /\ LET p == reqs[r].by
       IN  IF Awaits(p, r)
           THEN /\ audioUri' = [audioUri EXCEPT ![p] = reqs[r].chunk]
                /\ pc' = [pc EXCEPT ![p] = "play"]
                /\ ph' = [ph EXCEPT ![RA(p)] = HasCall]
           ELSE UNCHANGED <<audioUri, pc, ph>>
    /\ UNCHANGED <<updates, queue, playing, cancellationToken, creating, sinkExists,
                   creations, nchunks, count, prefetchQueue, aw, text, upc,
                   abortedBy, errors, played, stopped, wasPlaying,
                   cancelled, dirty>>

\* lines 208-219: no valid API key, sendMessageToCurrentTab is called and
\* synthesize throws
SynthAuth(r) ==
    /\ faults < MaxFaults
    /\ faults' = faults + 1
    /\ UNCHANGED <<during, stopAt, selection, bootstrapped, menuEnabled, waiters>>
    /\ r \in DOMAIN reqs
    /\ reqs[r].st = "pending"
    /\ reqs' = [reqs EXCEPT ![r].st = "auth"]
    /\ UNCHANGED <<dpc, dst, errors>>
    /\ errorCalls' = errorCalls \cup {SY(r)}
    /\ LET p == reqs[r].by
       IN  pc' = IF Awaits(p, r) THEN [pc EXCEPT ![p] = "thrown"] ELSE pc
    /\ UNCHANGED <<updates, queue, playing, cancellationToken, creating, sinkExists,
                   creations, nchunks, count, prefetchQueue, aw, text, audioUri,
                   upc, ph, abortedBy, played, stopped, wasPlaying,
                   cancelled, dirty>>

\* line 240: fetch rejects (the network fails) and synthesize throws having
\* neither called sendMessageToCurrentTab nor stopReading
SynthNetwork(r) ==
    /\ faults < MaxFaults
    /\ faults' = faults + 1
    /\ UNCHANGED <<during, stopAt, selection, bootstrapped, menuEnabled, errorCalls, waiters>>
    /\ r \in DOMAIN reqs
    /\ reqs[r].st = "pending"
    /\ reqs' = [reqs EXCEPT ![r].st = "net"]
    /\ UNCHANGED <<dpc, dst, errors>>
    /\ LET p == reqs[r].by
       IN  pc' = IF Awaits(p, r) THEN [pc EXCEPT ![p] = "thrown"] ELSE pc
    /\ UNCHANGED <<updates, queue, playing, cancellationToken, creating, sinkExists,
                   creations, nchunks, count, prefetchQueue, aw, text, audioUri,
                   upc, ph, abortedBy, played, stopped, wasPlaying,
                   cancelled, dirty>>

\* lines 252-260: the response is not ok, sendMessageToCurrentTab is called
\* and synthesize awaits stopReading before it throws
SynthBackend(r) ==
    /\ faults < MaxFaults
    /\ faults' = faults + 1
    /\ UNCHANGED <<during, stopAt, selection, bootstrapped, menuEnabled, waiters>>
    /\ r \in DOMAIN reqs
    /\ reqs[r].st = "pending"
    /\ errorCalls' = errorCalls \cup {SY(r)}
    /\ Commit([StopSync(View) EXCEPT !.reqs[r].st = "stop", !.ph[SY(r)] = HasCall])
    /\ UNCHANGED <<creating, sinkExists, creations, count, prefetchQueue, aw,
                   text, audioUri, errors>>

\* lines 516-528: sendMessageToCurrentTab resumes from chrome.tabs.query and
\* sends the message to the current tab, or returns without sending when
\* there is no current tab (lines 522-525)
SendMessageToCurrentTab(o, tab) ==
    /\ o \in errorCalls
    /\ errorCalls' = errorCalls \ {o}
    /\ errors' = IF tab THEN errors \cup {o} ELSE errors
    /\ UNCHANGED <<queue, playing, cancellationToken, creating, sinkExists,
                   creations, pc, nchunks, count, prefetchQueue, aw, text,
                   audioUri, upc, reqs, dpc, dst, ph, abortedBy, played, stopped,
                   wasPlaying, cancelled, dirty, during, stopAt, selection, bootstrapped, menuEnabled,
                   updates, faults, waiters>>

\* ---- download ------------------------------------------------------------------
\* what the download handler and the successful or unauthenticated synthesize
\* calls of its getAudioUri call leave alone
NotDownload ==
    <<queue, playing, cancellationToken, creating, sinkExists, creations, pc,
      nchunks, count, prefetchQueue, aw, text, audioUri, upc, reqs, ph,
      abortedBy, errors, played, stopped, wasPlaying, cancelled, dirty, during,
      stopAt, selection, bootstrapped, menuEnabled, updates, waiters>>

\* lines 175-178: download is invoked with a text of n chunks and awaits
\* chrome.storage.sync.get()
Download(d, n) ==
    /\ dpc[d] = "idle"
    /\ \A e \in Downloads : e < d => dpc[e] # "idle"
    /\ dpc' = [dpc EXCEPT ![d] = "sync"]
    /\ dst' = [dst EXCEPT ![d] = [i \in 1..n |-> "new"]]
    /\ UNCHANGED <<NotDownload, faults, errorCalls>>

\* lines 179 and 289-293: getAudioUri calls synthesize for every chunk and
\* download awaits them all
DownloadSync(d) ==
    /\ dpc[d] = "sync"
    /\ dpc' = [dpc EXCEPT ![d] = "synth"]
    /\ dst' = [dst EXCEPT ![d] = [i \in DOMAIN dst[d] |-> "pending"]]
    /\ UNCHANGED <<NotDownload, faults, errorCalls>>

\* lines 265-298 and 181-187: the response is ok; with the last one
\* Promise.all resolves and download starts chrome.downloads.download
DownloadOk(d, i) ==
    /\ i \in DOMAIN dst[d]
    /\ dst[d][i] = "pending"
    /\ dst' = [dst EXCEPT ![d][i] = "ok"]
    /\ dpc' = IF dpc[d] = "synth" /\ \A j \in DOMAIN dst[d] : dst'[d][j] = "ok"
              THEN [dpc EXCEPT ![d] = "done"] ELSE dpc
    /\ UNCHANGED <<NotDownload, faults, errorCalls>>

\* lines 208-219: no valid API key, sendMessageToCurrentTab is called and
\* synthesize throws; Promise.all rejects and download throws at line 179
DownloadAuth(d, i) ==
    /\ faults < MaxFaults
    /\ faults' = faults + 1
    /\ i \in DOMAIN dst[d]
    /\ dst[d][i] = "pending"
    /\ dst' = [dst EXCEPT ![d][i] = "auth"]
    /\ dpc' = IF dpc[d] = "synth" THEN [dpc EXCEPT ![d] = "thrown"] ELSE dpc
    /\ errorCalls' = errorCalls \cup {DL(d, i)}
    /\ UNCHANGED NotDownload

\* line 240: fetch rejects and synthesize throws; Promise.all rejects and
\* download throws at line 179
DownloadNetwork(d, i) ==
    /\ faults < MaxFaults
    /\ faults' = faults + 1
    /\ i \in DOMAIN dst[d]
    /\ dst[d][i] = "pending"
    /\ dst' = [dst EXCEPT ![d][i] = "net"]
    /\ dpc' = IF dpc[d] = "synth" THEN [dpc EXCEPT ![d] = "thrown"] ELSE dpc
    /\ UNCHANGED <<NotDownload, errorCalls>>

\* the backend error of a download handled as the authentication error is
DownloadBackendThrows(d, i) ==
    /\ faults < MaxFaults
    /\ faults' = faults + 1
    /\ i \in DOMAIN dst[d]
    /\ dst[d][i] = "pending"
    /\ dst' = [dst EXCEPT ![d][i] = "backend"]
    /\ dpc' = IF dpc[d] = "synth" THEN [dpc EXCEPT ![d] = "thrown"] ELSE dpc
    /\ errorCalls' = errorCalls \cup {DL(d, i)}
    /\ UNCHANGED NotDownload

\* lines 252-260: the response is not ok, sendMessageToCurrentTab is called
\* and synthesize awaits stopReading before it throws
DownloadBackend(d, i) ==
    /\ faults < MaxFaults
    /\ faults' = faults + 1
    /\ i \in DOMAIN dst[d]
    /\ dst[d][i] = "pending"
    /\ errorCalls' = errorCalls \cup {DL(d, i)}
    /\ Commit([StopSync(View) EXCEPT !.dst[d][i] = "stop", !.ph[DL(d, i)] = HasCall])
    /\ UNCHANGED <<creating, sinkExists, creations, count, prefetchQueue, aw,
                   text, audioUri, errors, during, stopAt, selection,
                   bootstrapped, menuEnabled, waiters>>

\* ---- updateContextMenus ------------------------------------------------------
\* line 341 writing what line 337 writes
MenuWriteEnabled == TRUE

\* line 341: enabled: playing, read when the call writes
MenuWrite == playing

\* lines 329-346: a call made at line 49, 86, 97, 134 or 161 resumes after
\* its awaits, the first of which is bootstrapped, and updates the context
\* menus
UpdateContextMenus ==
    /\ bootstrapped
    /\ updates > 0
    /\ updates' = updates - 1
    /\ menuEnabled' = MenuWrite
    /\ UNCHANGED <<queue, playing, cancellationToken, creating, sinkExists,
                   creations, pc, nchunks, count, prefetchQueue, aw, text,
                   audioUri, upc, reqs, dpc, dst, ph, abortedBy, errors, played, stopped,
                   wasPlaying, cancelled, dirty, during, stopAt, selection,
                   bootstrapped, faults, waiters, errorCalls>>

\* lines 44-50: the storage listener sees downloadEncoding change and calls
\* updateContextMenus
StorageChanged ==
    /\ updates < MaxPending
    /\ updates' = updates + 1
    /\ UNCHANGED <<queue, playing, cancellationToken, creating, sinkExists,
                   creations, pc, nchunks, count, prefetchQueue, aw, text,
                   audioUri, upc, reqs, dpc, dst, ph, abortedBy, errors, played, stopped,
                   wasPlaying, cancelled, dirty, during, stopAt, selection,
                   bootstrapped, menuEnabled, faults, waiters, errorCalls>>

\* lines 20-21 and 357-379: Bootstrap's createContextMenus resumes from its
\* awaits, creates the 'stopReading' item with enabled: playing (line 371)
\* and Bootstrap resolves bootstrapped
CreateContextMenus ==
    /\ ~bootstrapped
    /\ bootstrapped' = TRUE
    /\ menuEnabled' = playing
    /\ UNCHANGED <<queue, playing, cancellationToken, creating, sinkExists,
                   creations, pc, nchunks, count, prefetchQueue, aw, text,
                   audioUri, upc, reqs, dpc, dst, ph, abortedBy, errors, played, stopped,
                   wasPlaying, cancelled, dirty, during, stopAt, selection,
                   updates, faults, waiters, errorCalls>>

\* ---- specification -----------------------------------------------------------
\* everything that happens after a handler was invoked
Step ==
    \/ \E p \in Calls : SyncDone(p)
    \/ \E p \in Calls : PlayEnd(p)
    \/ \E p \in Calls : PlayFail(p)
    \/ \E p \in Calls : PlayAborted(p)
    \/ \E r \in 1..MaxReqs : SynthOk(r)
    \/ \E r \in 1..MaxReqs : SynthAuth(r)
    \/ \E r \in 1..MaxReqs : SynthNetwork(r)
    \/ \E r \in 1..MaxReqs : SynthBackend(r)
    \/ \E o \in Owners, tab \in BOOLEAN : SendMessageToCurrentTab(o, tab)
    \/ \E o \in Owners : HasDocument(o)
    \/ \E o \in Owners : AwaitCreating(o)
    \/ \E o \in Owners : AwaitRejected(o)
    \/ \E o \in Owners : CreateDocument(o)
    \/ \E o \in Owners : CreateOk(o)
    \/ \E o \in Owners : CreateFail(o)
    \/ \E o \in Owners : StopSettle(o)

\* readAloud and stopReading are invoked by events at any time
Next ==
    \/ \E p \in Calls, n \in 1..MaxChunks : ReadAloud(p, n)
    \/ \E u \in Stops : StopReading(u)
    \/ \E u \in Stops, n \in 1..MaxChunks : ReadAloudShortcut(u, n)
    \/ Step

Spec == Init /\ [][Next]_vars

\* one text of up to SoloChunks chunks is read aloud and no other readAloud
\* is invoked; stopReading and failures happen as in Spec
NextSolo ==
    \/ \E n \in 1..SoloChunks : ReadAloud(1, n)
    \/ \E u \in Stops : StopReading(u)
    \/ Step

SpecSolo == Init /\ [][NextSolo]_vars

\* texts of one chunk are read aloud and stopped as in Spec, and the pending
\* updateContextMenus calls complete at any time
NextMenu ==
    \/ \E p \in Calls : ReadAloud(p, 1)
    \/ \E u \in Stops : StopReading(u)
    \/ \E u \in Stops : ReadAloudShortcut(u, 1)
    \/ Step
    \/ UpdateContextMenus
    \/ StorageChanged
    \/ CreateContextMenus

SpecMenu == Init /\ [][NextMenu]_vars

\* one text is read aloud and stopped as in SpecSolo while texts of up to
\* MaxDlChunks chunks are downloaded
NextDownload ==
    \/ \E n \in 1..MaxChunks : ReadAloud(1, n)
    \/ \E u \in Stops : StopReading(u)
    \/ Step
    \/ \E d \in Downloads, n \in 1..MaxDlChunks : Download(d, n)
    \/ \E d \in Downloads : DownloadSync(d)
    \/ \E d \in Downloads, i \in 1..MaxDlChunks : DownloadOk(d, i)
    \/ \E d \in Downloads, i \in 1..MaxDlChunks : DownloadAuth(d, i)
    \/ \E d \in Downloads, i \in 1..MaxDlChunks : DownloadNetwork(d, i)
    \/ \E d \in Downloads, i \in 1..MaxDlChunks : DownloadBackend(d, i)

SpecDownload == Init /\ [][NextDownload]_vars

\* chrome.storage.sync.get() resolves, the backend answers every request, the
\* existence check and the creation of the offscreen document complete, the
\* sink ends every playback and answers every stop command: a step that
\* stays possible is eventually taken
Fairness ==
    /\ \A p \in Calls : WF_vars(SyncDone(p)) /\ WF_vars(PlayEnd(p))
    /\ \A r \in 1..MaxReqs : WF_vars(SynthOk(r))
    /\ \A o \in Owners :
          /\ WF_vars(HasDocument(o))
          /\ WF_vars(CreateDocument(o))
          /\ WF_vars(AwaitCreating(o))
          /\ WF_vars(CreateOk(o))
          /\ WF_vars(StopSettle(o))

\* SpecSolo with every pending step eventually completing
SpecLive == Init /\ [][NextSolo]_vars /\ Fairness

\* ---- claims -------------------------------------------------------------------
\* C1: at every instant at most one play command is outstanding at the sink
\* (sent and not yet settled), whatever the interleaving of readAloud and
\* stopReading calls.
C1_AtMostOnePlayOutstanding == Cardinality(Outstanding) <= 1

\* C2: there is never more than one readAloud call that has entered its
\* while loop and has not returned.
C2_AtMostOneDrainLoop == Cardinality({p \in Calls : InLoop(p)}) <= 1

\* C3: a readAloud invoked while playing is true has had its stop command
\* sent to the sink, and every earlier session has ended, before it submits any
\* chunk for synthesis.
C3_OldSessionStoppedFirst ==
    \A p \in Calls :
        (wasPlaying[p] /\ \E r \in DOMAIN reqs : reqs[r].by = p)
            => /\ RA(p) \in stopped
               /\ \A q \in Calls : q < p => ~Running(q)

\* C5: once stopReading has run during a session, that session sends no
\* further play command to the sink.
C5_NoPlayAfterStop ==
    [][\A p \in Calls : cancelled[p] => Len(played'[p]) = Len(played[p])]_vars

\* C9: within one session every play command carries the audio synthesized
\* from the chunk it was shifted for, and the chunks of a text are played in
\* their original order, none of them twice.
C9_PlaysInOrderWithOwnAudio ==
    \A p \in Calls :
        /\ \A i \in DOMAIN played[p] : played[p][i][2] = played[p][i][1]
        /\ \A i, j \in DOMAIN played[p] :
              (i < j /\ played[p][i][1][1] = played[p][j][1][1])
                  => played[p][i][1][2] < played[p][j][1][2]

\* C4 as stated: when a stopReading invoked during a session returns, playing is
\* false, the queue is empty and its stop command has been sent to the sink.
C4_Original ==
    [][\A u \in Stops :
          (during[u] /\ upc[u] = "stop" /\ upc'[u] = "done")
              => (~playing' /\ queue' = <<>> /\ US(u) \in stopped')]_vars

\* C4 amended: when stopReading returns, playing is false and the queue is
\* empty unless a readAloud call has enqueued a text since stopReading was
\* invoked, and its stop command has been sent to the sink unless the
\* offscreen document could not be created.
C4_StopReadingReturns ==
    [][\A u \in Stops :
          (during[u] /\ upc[u] = "stop" /\ upc'[u] = "done")
              => /\ ~dirty'[u] => (~playing' /\ queue' = <<>>)
                 /\ US(u) \in stopped' \/ creating' = "rejected"]_vars

\* a stopReading invoked during a session has returned after its stop command
\* was sent, with no text enqueued in between
C4_Witness ==
    \E u \in Stops :
        /\ upc[u] = "done"
        /\ US(u) \in stopped
        /\ ~dirty[u]
        /\ during[u]

\* a single text of three chunks, no stopReading event and no failure so far
NormalRun ==
    /\ nchunks[1] = 3
    /\ \A p \in Calls : p # 1 => pc[p] = "idle"
    /\ \A u \in Stops : upc[u] = "idle"
    /\ faults = 0

RequestsFor(c) == {r \in DOMAIN reqs : reqs[r].chunk = c}

\* C6: in a normal run over [A, B, C] the synthesis of B is
\* requested before the playback of A completes, and the synthesis of C only
\* after the play command of B has been sent.
C6_PrefetchTiming ==
    NormalRun =>
        /\ \A r \in RequestsFor(<<1, 2>>) : reqs[r].playedAt = 0
        /\ \A r \in RequestsFor(<<1, 3>>) : reqs[r].sentAt >= 2

\* C7: a session has at most one unsettled getAudioUri call at any
\* instant, so the first chunk is synthesized with no prefetch in flight.
C7_OneOutstandingCall == \A p \in Calls : Cardinality(Unsettled(p)) <= 1

ChunkNo(r) == reqs[r].chunk[2]

\* C8: within one session the getAudioUri calls are made in chunk
\* order.
C8_RequestsInChunkOrder ==
    \A i, j \in DOMAIN reqs :
        (i < j /\ reqs[i].by = reqs[j].by) => ChunkNo(i) < ChunkNo(j)

\* C10: when the synthesis of chunk 2 of a text of three chunks fails with a
\* backend error, the synthesis of chunk 3 is never requested, and the session
\* ends with playing false, the queue empty and the error sent to the user
\* once sendMessageToCurrentTab has run to its end.
C10_BackendErrorEndsSession ==
    \A r \in RequestsFor(<<1, 2>>) :
        (nchunks[1] = 3 /\ reqs[r].st \in {"stop", "backend"})
            => /\ RequestsFor(<<1, 3>>) = {}
               /\ Ended(1) => (~playing /\ queue = <<>>)
               /\ (Ended(1) /\ SY(r) \notin errorCalls) => SY(r) \in errors

\* the call awaited request r when synthesize threw the authentication error
AuthThrown(p) ==
    /\ pc[p] = "thrown"
    /\ aw[p] \in DOMAIN reqs
    /\ reqs[aw[p]].st = "auth"

\* C11: when a synthesis of a readAloud call fails with the authentication
\* error, the failure reaches readAloud's caller, and once readAloud has settled
\* playing is false and no chunk remains in the queue.
C11_AuthErrorEndsIdle ==
    /\ \A r \in DOMAIN reqs :
          (reqs[r].st = "auth" /\ aw[reqs[r].by] = r) => pc[reqs[r].by] = "thrown"
    /\ \A p \in Calls : AuthThrown(p) => (~playing /\ queue = <<>>)

\* stopReading has been called, by an event, by readAloud or by synthesize
StopReadingCalled ==
    \/ \E u \in Stops : upc[u] # "idle"
    \/ \E p \in Calls : wasPlaying[p]
    \/ \E r \in DOMAIN reqs : reqs[r].st \in {"stop", "backend"}
    \/ \E d \in Downloads : \E i \in DOMAIN dst[d] : dst[d][i] \in {"stop", "backend"}

\* C12: when the sink or its creation fails while a chunk is played and
\* stopReading was not called, the session sends no later chunk to the sink and
\* playing is false once readAloud has returned.
C12_SinkFailureEndsIdle ==
    \A p \in Calls :
        (pc[p] = "aborted" /\ ~StopReadingCalled)
            => (ph[RA(p)] # "sent" /\ ~playing)

\* C13: the createOffscreenDocument calls made before the offscreen document
\* exists make one chrome.offscreen.createDocument call between them, however
\* their existence checks interleave with the completion of the creation, and
\* a caller whose createOffscreenDocument has returned finds the document.
C13_ExactlyOneCreation ==
    /\ creations <= 1
    /\ \A o \in Owners : ph[o] = "sent" => sinkExists

\* stopReading u was the only stopReading so far
OnlyStop(u) ==
    /\ \A v \in Stops : v # u => upc[v] = "idle"
    /\ \A p \in Calls : ~wasPlaying[p]
    /\ \A r \in DOMAIN reqs : reqs[r].st \notin {"stop", "backend"}
    /\ \A d \in Downloads : \A i \in DOMAIN dst[d] : dst[d][i] \notin {"stop", "backend"}

\* the play commands of a call that has played its whole text
AllChunks(p) == [i \in 1..nchunks[p] |-> <<<<p, i>>, <<p, i>>>>]

\* C14: a stopReading invoked when idle raises no error, sends at most one
\* stop command and leaves playing false and the queue empty when it returns;
\* a readAloud call invoked after it is not cancelled and, when nothing fails,
\* is not aborted and plays all the chunks of its text.
C14_StopWhenIdleIsNoOp ==
    [][\A u \in Stops :
          (stopAt'[u].idle /\ OnlyStop(u)')
              => /\ upc'[u] \in {"stop", "done"}
                 /\ stopped' \subseteq {US(u)}
                 /\ (upc[u] = "stop" /\ upc'[u] = "done" /\ ~dirty'[u])
                       => (~playing' /\ queue' = <<>>)
                 /\ \A p \in Calls \ stopAt'[u].calls :
                       /\ ~cancelled'[p]
                       /\ faults' = 0 => pc'[p] \notin {"aborted", "thrown"}
                       /\ pc'[p] = "done" => played'[p] = AllChunks(p)']_vars

\* a stopReading ran or a synthesis, a playback or the creation of the
\* offscreen document failed
Disturbed == faults > 0 \/ StopReadingCalled

\* the call has returned after playing every chunk of its text once, in order
Completed(p) ==
    /\ pc[p] = "done"
    /\ played[p] = AllChunks(p)
    /\ ~playing
    /\ queue = <<>>

\* C15: a single readAloud session with no stopReading, in which every
\* synthesis and every playback succeeds, eventually has played every chunk
\* exactly once and ended with playing false and the queue empty.
C15_SessionCompletes ==
    \A p \in Calls : Running(p) ~> (Disturbed \/ Completed(p))

\* an undisturbed session over three chunks has completed
C15_Witness == ~Disturbed /\ nchunks[1] = 3 /\ Completed(1)

\* C16: every step that changes playing makes one updateContextMenus call,
\* which nothing awaits, and whenever no updateContextMenus call is pending the
\* enabled state last written to the 'stopReading' menu equals playing.
C16_MenuFollowsPlaying ==
    [][/\ playing' # playing => updates' = updates + 1
       /\ updates' = 0 => menuEnabled' = playing']_vars

\* a session is in its loop, every updateContextMenus call has written and
\* the menu is enabled
C16_Witness ==
    /\ updates = 0
    /\ menuEnabled
    /\ playing
    /\ \E p \in Calls : InLoop(p)

\* C17: every chunk that a readAloud call shifts from the queue and sends to
\* the sink belongs to the text of that call.
C17_OwnChunksOnly ==
    \A p \in Calls :
        /\ InLoop(p) => text[p][1] = p
        /\ \A i \in DOMAIN played[p] : played[p][i][1][1] = p

\* C18: in every reachable state, playing = false implies that the queue is
\* empty.
C18_IdleImpliesEmptyQueue == ~playing => queue = <<>>

\* C19: once chrome.offscreen.createDocument has rejected, creating keeps the
\* rejected promise: no creation is started again, and every
\* createOffscreenDocument call made while no document exists throws, so
\* that its caller sends nothing to the sink.
C19_RejectedCreationSticks ==
    [][/\ (creations' > 0 /\ ~sinkExists') => creating' # "null"
       /\ creating = "rejected" =>
             /\ creating' = "rejected"
             /\ creations' = creations
             /\ \A o \in Owners :
                   (ph[o] = "hasF" /\ ~sinkExists /\ ph'[o] # "hasF")
                       => /\ ph'[o] = "none"
                          /\ stopped' = stopped
                          /\ played' = played]_vars

\* the creation was rejected while readAloud waited for it, and a stopReading
\* invoked after readAloud had returned has failed to send its stop command
C19_Witness ==
    /\ creating = "rejected"
    /\ creations = 1
    /\ ~sinkExists
    /\ pc[1] = "aborted"
    /\ \E u \in Stops :
          /\ upc[u] = "done"
          /\ 1 \in stopAt[u].calls
          /\ ~during[u]
          /\ US(u) \notin stopped

\* the synthesize calls of download d whose state the step has changed
DlChanged(d) ==
    {i \in DOMAIN dst'[d] : i \notin DOMAIN dst[d] \/ dst'[d][i] # dst[d][i]}

\* C20: a step of a download whose synthesize calls succeed or fail with the
\* authentication error (or because fetch rejects) changes neither queue, playing nor cancellationToken
\* and sends nothing to the sink; a synthesize call of a download that gets a
\* backend error runs stopReading: it sets cancellationToken, empties the
\* queue, sets playing to false and calls createOffscreenDocument, its stop
\* command aborts the playback in progress, and when it returns into the
\* download the stop command has been sent unless the offscreen document
\* could not be created.
C20_DownloadFrame ==
    [][\A d \in Downloads :
          /\ ( /\ dpc'[d] # dpc[d] \/ DlChanged(d) # {}
               /\ \A i \in DlChanged(d) : dst'[d][i] \in {"new", "pending", "ok", "auth", "net"} )
                => UNCHANGED <<queue, playing, cancellationToken, ph, played,
                               stopped, abortedBy>>
          /\ \A i \in DOMAIN dst[d] :
                /\ (dst[d][i] = "pending" /\ dst'[d][i] \notin {"pending", "ok", "auth", "net"})
                      => /\ dst'[d][i] = "stop"
                         /\ cancellationToken' /\ queue' = <<>> /\ ~playing'
                         /\ InHas(DL(d, i))'
                /\ (DL(d, i) \notin stopped /\ DL(d, i) \in stopped')
                      => /\ Outstanding \subseteq abortedBy'[DL(d, i)]
                         /\ abortedBy'[DL(d, i)] \subseteq Outstanding'
                /\ (dst[d][i] = "stop" /\ dst'[d][i] # "stop")
                      => /\ dst'[d][i] = "backend"
                         /\ dpc'[d] = "thrown"
                         /\ DL(d, i) \in stopped' \/ creating' = "rejected"]_vars

\* the backend error of a download has stopped a session that was playing:
\* its stop command has aborted the play command of the readAloud call
C20_Witness ==
    \E d \in Downloads, i \in 1..MaxDlChunks :
        /\ i \in DOMAIN dst[d]
        /\ dst[d][i] = "backend"
        /\ dpc[d] = "thrown"
        /\ DL(d, i) \in stopped
        /\ cancelled[1]
        /\ pc[1] = "aborted"
        /\ ~playing

====
